---- MODULE Spec2Model ----
(***************************************************************************)
(* Review service: the review / reply / appeal write path of the data     *)
(* layer (reviewRepo) with the usecase checks in front of it, the async    *)
(* moderation + indexing task, the singleflight paged read, and the agent  *)
(* tool gate.                                                              *)
(*                                                                         *)
(* Every database statement, LLM call, cache call and search call is one   *)
(* step: between two statements of one request any other request may run.  *)
(* A gorm Transaction(...) closure is one step (it commits all its writes  *)
(* or none).                                                               *)
(***************************************************************************)
EXTENDS Integers, Sequences, FiniteSets, TLC

\* ------------------------------------------------------------------ bounds
NumCreate == 2        \* concurrent Review.Create requests (and their tasks)
NumOperator == 1      \* concurrent operator audit requests
NumReply == 2         \* concurrent Reply requests
NumAppeal == 2        \* concurrent appeal submissions
NumAppealAudit == 2   \* concurrent appeal audit requests
NumOrder == 1         \* distinct order ids
NumStore == 2         \* distinct store ids
NumReader == 2        \* concurrent paged-read requests
NumCaller == 1        \* concurrent agent CallTool requests
NumProcess == 2       \* concurrent agent Process calls
NumSession == 2       \* distinct non-empty session ids

Creators == 1..NumCreate
Operators == 1..NumOperator
Repliers == 1..NumReply
Appellants == 1..NumAppeal
AppealAuditors == 1..NumAppealAudit
Orders == 1..NumOrder
Stores == 1..NumStore
Readers == 1..NumReader
Callers == 1..NumCaller
Processors == 1..NumProcess
Sessions == 1..NumSession

\* ------------------------------------------------------- program constants
StatusPending == 10
StatusApproved == 20
StatusRejected == 30
StatusHidden == 40
AppealPending == 10
AppealUpheld == 20
AppealRejected == 30
MemoryCap == 100      \* messages appendHistory keeps per session

VARIABLES
    reviews,   \* table review_info, in primary-key (insertion) order
    replies,   \* table review_reply_info
    appeals,   \* table review_appeal_info
    es,        \* index "review": review_id -> document (or NoRow)
    cr,        \* Review.Create requests
    task,      \* async syncAndAudit tasks, one per successful review write
    oper,      \* operator audit requests
    rp,        \* Reply requests
    ap,        \* appeal submissions
    aa,        \* appeal audit requests
    cache,     \* redis: key -> bytes (or Miss)
    flights,   \* singleflight.Group g: the keys with a call in flight
    rd,        \* paged-read requests
    searches,  \* number of search calls each paged-read request made
    ag,        \* agent CallTool requests
    memory,    \* AgentUsecase.memory: session id -> messages, oldest first
    pr,        \* agent Process calls
    reqctx     \* the request context of each Review.Create request

dbvars == <<reviews, replies, appeals, es, cr, task, oper, rp, ap, aa>>
rdvars == <<cache, flights, rd, searches>>
memvars == <<memory, pr>>
agvars == <<ag, memvars>>
ctxvars == <<reqctx>>
vars == <<dbvars, rdvars, agvars, ctxvars>>

\* ------------------------------------------------------------------- rows
\* snowflake.GenID hands out a fresh id per call: the caller's own number
\* within its kind of request stands for it.
GenID(p) == p

NoRow == [review_id |-> 0, order_id |-> 0, store_id |-> 0, user_id |-> 0,
          content |-> <<>>,
          score |-> 0, status |-> 0, has_reply |-> 0, version |-> 0,
          update_by |-> "", op_remarks |-> ""]

NoAppeal == [appeal_id |-> 0, review_id |-> 0, store_id |-> 0, status |-> 0,
             reason |-> 0, content |-> 0, op_user |-> ""]

\* An order is placed by one customer with one store.
StoreOf(o) == ((o - 1) % NumStore) + 1
UserOf(o) == o + 1

\* The timestamp header of an appended comment, as one content token.
Header == 0

\* The record the service layer hands to CreateReview (status 10, version 0
\* are the column defaults of review_info).
NewReview(p, o, s) ==
    [review_id |-> GenID(p), order_id |-> o, store_id |-> s, user_id |-> UserOf(o),
     content |-> <<p>>,
     score |-> p, status |-> StatusPending, has_reply |-> 0, version |-> 0,
     update_by |-> "", op_remarks |-> ""]

\* ...Where(OrderID.Eq(o)).Find()
GetReviewByOrderID(o) == SelectSeq(reviews, LAMBDA r : r.order_id = o)

\* ...Where(ReviewID.Eq(id)).Find(); First() is its head, or an error.
ReviewsByID(id) == SelectSeq(reviews, LAMBDA r : r.review_id = id)
GetReviewByReviewID(id) ==
    IF ReviewsByID(id) = <<>> THEN NoRow ELSE Head(ReviewsByID(id))

AppealsByReview(id) == SelectSeq(appeals, LAMBDA a : a.review_id = id)
AppealsByID(id) == SelectSeq(appeals, LAMBDA a : a.appeal_id = id)

\* ------------------------------------------------------- moderation client
\* Completions of the LLM, as token sequences.
Completions == { <<"shi">>, <<"fou", "colon", "r">>, <<"fou">>, <<"x">>, <<>> }
LLMOutcomes == [err : {FALSE}, text : Completions] \cup {[err |-> TRUE, text |-> <<>>]}

HasPrefix(s, t) == Len(s) >= 1 /\ s[1] = t
TrimPrefix(s, t) == IF HasPrefix(s, t) THEN Tail(s) ELSE s

\* AIClient.ModerateText: (approved, reason, err)
ModerateText(llm) ==
    IF llm.err THEN [approved |-> FALSE, reason |-> <<"service error">>, err |-> TRUE]
    ELSE IF HasPrefix(llm.text, "shi")
         THEN [approved |-> TRUE, reason |-> <<"approved">>, err |-> FALSE]
    ELSE IF HasPrefix(llm.text, "fou")
         THEN LET r == TrimPrefix(TrimPrefix(TrimPrefix(TrimPrefix(
                           TrimPrefix(llm.text, "fou"),
                           "wcomma"), "comma"), "colon"), "acolon")
              IN [approved |-> FALSE,
                  reason |-> IF r = <<>> THEN <<"default">> ELSE r,
                  err |-> FALSE]
    ELSE [approved |-> FALSE, reason |-> <<"service error">>, err |-> FALSE]

\* ------------------------------------------------------------- statements
\* The append written as a whole fresh row: has_reply back at its default.
SaveContent(rows, id, c, sc) ==
    [i \in DOMAIN rows |->
        IF rows[i].review_id = id
        THEN [rows[i] EXCEPT !.content = c, !.score = sc, !.has_reply = 0]
        ELSE rows[i]]

\* The append written with the status column set back to 10, so that the
\* appended review is moderated again.
ResubmitContent(rows, id, c, sc) ==
    [i \in DOMAIN rows |->
        IF rows[i].review_id = id
        THEN [rows[i] EXCEPT !.content = c, !.score = sc, !.status = StatusPending]
        ELSE rows[i]]

\* Updates(map) with WHERE review_id = id: the listed columns and no other.
UpdateContent(rows, id, c, sc) ==
    [i \in DOMAIN rows |->
        IF rows[i].review_id = id
        THEN [rows[i] EXCEPT !.content = c, !.score = sc]
        ELSE rows[i]]

UpdateStatus(rows, id, st, by, remarks) ==
    [i \in DOMAIN rows |->
        IF rows[i].review_id = id
        THEN [rows[i] EXCEPT !.status = st, !.update_by = by, !.op_remarks = remarks]
        ELSE rows[i]]

UpdateReviewByAppeal(rows, id, st, by) ==
    [i \in DOMAIN rows |->
        IF rows[i].review_id = id
        THEN [rows[i] EXCEPT !.status = st, !.update_by = by]
        ELSE rows[i]]

\* param.OpReason: the operator's text; appeal texts are numbered by their
\* submitter, and this one is no submitter's.
OpReason == 0

UpdateAppealAudit(rows, id, st, by, reason) ==
    [i \in DOMAIN rows |->
        IF rows[i].appeal_id = id
        THEN [rows[i] EXCEPT !.status = st, !.op_user = by, !.reason = reason]
        ELSE rows[i]]

\* A save of the whole appeal record built by AppealReview, whose Status is
\* 10, over the row with that appeal_id.
SaveAppealText(rows, id, reason, content) ==
    [i \in DOMAIN rows |->
        IF rows[i].appeal_id = id
        THEN [rows[i] EXCEPT !.reason = reason, !.content = content,
                             !.status = AppealPending, !.op_user = ""]
        ELSE rows[i]]

\* The Updates statement of AppealReview: the named columns reason, content,
\* pic_info and video_info of the row with that appeal_id.
UpdateAppealText(rows, id, reason, content) ==
    [i \in DOMAIN rows |->
        IF rows[i].appeal_id = id
        THEN [rows[i] EXCEPT !.reason = reason, !.content = content]
        ELSE rows[i]]

UpdateHasReply(rows, id) ==
    [i \in DOMAIN rows |->
        IF rows[i].review_id = id THEN [rows[i] EXCEPT !.has_reply = 1] ELSE rows[i]]

\* ------------------------------------------------------------ request state
CrIdle == [pc |-> "start", order |-> 0, existing |-> NoRow, ret |-> NoRow]
\* failed: an external call of the task (moderation client, index) failed.
TaskOff == [pc |-> "off", review |-> NoRow, snap |-> NoRow, audited |-> NoRow,
            failed |-> FALSE]
\* No completion: the request has not called the moderation client.
NoCompletion == [err |-> FALSE, text |-> <<"uncalled">>]
OperIdle == [pc |-> "start", rid |-> 0, status |-> 0, snap |-> NoRow, err |-> "",
             llm |-> NoCompletion]
RpIdle == [pc |-> "start", rid |-> 0, store |-> 0, committed |-> FALSE, err |-> ""]
ApIdle == [pc |-> "start", rid |-> 0, store |-> 0, existing |-> NoAppeal, err |-> ""]
AaIdle == [pc |-> "start", id |-> 0, decision |-> 0, review_id |-> 0, err |-> ""]

\* An agent CallTool request: the authedUser, the tool, the parsed id and the
\* usecase call it made.
NilUser == [UserID |-> 0, Role |-> "", StoreID |-> 0]

NoCall == [name |-> "", id |-> 0, page |-> 0, size |-> 0]
\* asked: the role of the principal and the tool name the call came with.
NoAsk == [Role |-> "", tool |-> ""]
AgIdle == [pc |-> "start", user |-> NilUser, tool |-> "", id |-> 0,
           asked |-> NoAsk, invoked |-> NoCall, usecaseErr |-> FALSE, llmErr |-> FALSE,
           err |-> "", result |-> ""]

\* message{Role, Text}; a text is what it says and whose it is, "" is <<>>.
message(role, text) == [Role |-> role, Text |-> text]

\* sessionID == "": the call keeps no memory.
NoSession == 0

\* An agent Process call: its session, the history it copied and the
\* FinalAnswer of the parsed LLM response.
PrIdle == [pc |-> "start", sessionID |-> NoSession, history |-> <<>>,
           FinalAnswer |-> <<>>, err |-> ""]

\* make(map[string][]message): every session reads as the nil slice.
NoMemory == [s \in Sessions |-> <<>>]

\* A request that returned the error e.
Failed(idle, e) == [idle EXCEPT !.pc = "fail", !.err = e]

\* ---------------------------------------------------------------- paged read
\* fmt.Sprintf("review:%d:%d:%d", id, offset, limit), and its fields as
\* GetDataFromES splits them.
Key(id, offset, limit) == <<"review", id, offset, limit>>
KeyIndex(k) == k[1]
KeyID(k) == k[2]
KeyOffset(k) == k[3]
KeyLimit(k) == k[4]

PageOffsets == {0}
PageLimits == {2}
Keys == {Key(id, f, n) : id \in Stores, f \in PageOffsets, n \in PageLimits}
Targets == {"store", "user", "status"}

Miss == <<"redis.Nil">>
NoFlight == 0
NoRes == [data |-> <<>>, err |-> "pending"]
RdIdle == [pc |-> "start", key |-> <<>>, target |-> "", leader |-> 0,
           data |-> <<>>, res |-> NoRes]

\* The state after construction, with the requests of C, O, R, S, Q, L about
\* to arrive, the review rows seed stored and the documents idx indexed.
InitWith(C, O, R, S, Q, L, A, seed, idx) ==
    /\ reviews = seed
    /\ replies = <<>>
    /\ appeals = <<>>
    /\ es = idx
    /\ cr = [p \in Creators |-> IF p \in C THEN CrIdle ELSE [CrIdle EXCEPT !.pc = "off"]]
    /\ task = [p \in Creators |-> TaskOff]
    /\ oper = [o \in Operators |-> IF o \in O THEN OperIdle ELSE [OperIdle EXCEPT !.pc = "off"]]
    /\ rp = [r \in Repliers |-> IF r \in R THEN RpIdle ELSE [RpIdle EXCEPT !.pc = "off"]]
    /\ ap = [s \in Appellants |-> IF s \in S THEN ApIdle ELSE [ApIdle EXCEPT !.pc = "off"]]
    /\ aa = [q \in AppealAuditors |-> IF q \in Q THEN AaIdle ELSE [AaIdle EXCEPT !.pc = "off"]]
    /\ cache = [k \in Keys |-> Miss]
    /\ flights = [k \in Keys |-> NoFlight]
    /\ rd = [c \in Readers |-> IF c \in L THEN RdIdle ELSE [RdIdle EXCEPT !.pc = "off"]]
    /\ searches = [c \in Readers |-> 0]
    /\ ag = [c \in Callers |-> IF c \in A THEN AgIdle ELSE [AgIdle EXCEPT !.pc = "off"]]
    /\ memory = NoMemory
    /\ pr = [c \in Processors |-> [PrIdle EXCEPT !.pc = "off"]]
    /\ reqctx = [p \in Creators |-> "live"]

EmptyIndex == [i \in Creators |-> NoRow]

\* ------------------------------------------------------------ Review.Create
\* ReviewUsecase.CreateReview: look the order up, refuse a reviewed order.
CreateReview(p) ==
    /\ cr[p].pc = "start"
    /\ \E o \in Orders :
          cr' = [cr EXCEPT ![p] = [@ EXCEPT
                    !.order = o,
                    !.pc = IF GetReviewByOrderID(o) # <<>> THEN "reviewed" ELSE "save"]]
    /\ UNCHANGED <<reviews, replies, appeals, es, task, oper, rp, ap, aa, rdvars, agvars, ctxvars>>

\* reviewRepo.SaveReview, the lookup: existingReviews[0] if any.
SaveReviewFind(p) ==
    /\ cr[p].pc = "save"
    /\ LET found == GetReviewByOrderID(cr[p].order)
       IN cr' = [cr EXCEPT ![p] = [@ EXCEPT
                    !.existing = IF found = <<>> THEN NoRow ELSE Head(found),
                    !.pc = IF found = <<>> THEN "insert" ELSE "append"]]
    /\ UNCHANGED <<reviews, replies, appeals, es, task, oper, rp, ap, aa, rdvars, agvars, ctxvars>>

\* A write that returns without starting the task.
LaunchNone(t, review) == TaskOff

\* go r.syncAndAudit(review)
Launch(t, review) == [TaskOff EXCEPT !.pc = "read", !.review = review]

\* reviewRepo.SaveReview, the create branch.
SaveReviewCreate(p) ==
    /\ cr[p].pc = "insert"
    /\ LET review == NewReview(p, cr[p].order, StoreOf(cr[p].order))
       IN /\ reviews' = Append(reviews, review)
          /\ task' = [task EXCEPT ![p] = Launch(p, review)]
          /\ cr' = [cr EXCEPT ![p] = [@ EXCEPT !.pc = "done", !.ret = review]]
    /\ UNCHANGED <<replies, appeals, es, oper, rp, ap, aa, rdvars, agvars, ctxvars>>

\* The row set an append writes: the content read earlier, the header, the
\* new content; the scores of the new submission.
AppendedRows(p) ==
    UpdateContent(reviews, cr[p].existing.review_id,
                  cr[p].existing.content \o <<Header>> \o <<p>>, p)

\* reviewRepo.SaveReview, the append branch: the Updates statement.
SaveReviewAppend(p) ==
    /\ cr[p].pc = "append"
    /\ reviews' = AppendedRows(p)
    /\ cr' = [cr EXCEPT ![p] = [@ EXCEPT !.pc = "reread"]]
    /\ UNCHANGED <<replies, appeals, es, task, oper, rp, ap, aa, rdvars, agvars, ctxvars>>

\* reviewRepo.SaveReview, the append branch: the re-read and the launch.
SaveReviewReread(p) ==
    /\ cr[p].pc = "reread"
    /\ \E ok \in BOOLEAN :
          IF ok
          THEN LET updated == GetReviewByReviewID(cr[p].existing.review_id)
               IN /\ task' = [task EXCEPT ![p] = Launch(p, updated)]
                  /\ cr' = [cr EXCEPT ![p] = [@ EXCEPT !.pc = "done", !.ret = updated]]
          ELSE /\ task' = task
               /\ cr' = [cr EXCEPT ![p] = [@ EXCEPT !.pc = "done", !.ret = cr[p].existing]]
    /\ UNCHANGED <<reviews, replies, appeals, es, oper, rp, ap, aa, rdvars, agvars, ctxvars>>

\* ------------------------------------------------------ reviewRepo.AuditReview
\* The status check on the row read first.
AuditableAlways(r) == r # NoRow

Auditable(r) == r # NoRow /\ r.status = StatusPending

AuditStatus(m) == IF m.approved THEN StatusApproved ELSE StatusRejected
AuditRemarks(m) == IF m.approved THEN "ai approved" ELSE "ai rejected"

\* The Updates statement of AuditReview for the review rid with verdict m.
AuditedRows(rid, m) ==
    UpdateStatus(reviews, rid, AuditStatus(m), "Gemini", AuditRemarks(m))

\* The rows whatever ModerateText returned: the Updates statement always runs.
RowsAfterAuditAnyway(rid, m) == AuditedRows(rid, m)

\* The rows after AuditReview's moderation call: an error of ModerateText
\* returns before the Updates statement.
RowsAfterAudit(rid, m) == IF m.err THEN reviews ELSE AuditedRows(rid, m)

\* ------------------------------------------------------------ syncAndAudit
\* Where the task goes when AuditReview has returned with or without an
\* error, if an audit error ended the task.
AfterAuditReturns(auditErr) == IF auditErr THEN "done" ELSE "es"

\* Where the task goes when AuditReview has returned: an error is logged and
\* the task goes on to SaveToES either way.
AfterAudit(auditErr) == "es"

\* AuditReview's read; a failed audit goes on to index the task's own record.
TaskAuditRead(t) ==
    /\ task[t].pc = "read"
    /\ LET r == GetReviewByReviewID(task[t].review.review_id)
       IN task' = [task EXCEPT ![t] =
                     IF Auditable(r)
                     THEN [@ EXCEPT !.pc = "write", !.snap = r]
                     ELSE [@ EXCEPT !.pc = AfterAudit(TRUE), !.audited = task[t].review]]
    /\ UNCHANGED <<reviews, replies, appeals, es, cr, oper, rp, ap, aa, rdvars, agvars, ctxvars>>

\* AuditReview's moderation call and status update.
TaskAuditWrite(t) ==
    /\ task[t].pc = "write"
    /\ \E llm \in LLMOutcomes :
          LET m == ModerateText(llm)
          IN IF m.err
             THEN /\ reviews' = RowsAfterAudit(task[t].review.review_id, m)
                  /\ task' = [task EXCEPT ![t] = [@ EXCEPT !.pc = AfterAudit(TRUE),
                                                          !.audited = task[t].review,
                                                          !.failed = TRUE]]
             ELSE /\ reviews' = RowsAfterAudit(task[t].review.review_id, m)
                  /\ task' = [task EXCEPT ![t] = [@ EXCEPT !.pc = "ret"]]
    /\ UNCHANGED <<replies, appeals, es, cr, oper, rp, ap, aa, rdvars, agvars, ctxvars>>

\* AuditReview's closing GetReviewByReviewID.
TaskAuditReturn(t) ==
    /\ task[t].pc = "ret"
    /\ task' = [task EXCEPT ![t] = [@ EXCEPT
                    !.pc = AfterAudit(FALSE),
                    !.audited = GetReviewByReviewID(task[t].review.review_id)]]
    /\ UNCHANGED <<reviews, replies, appeals, es, cr, oper, rp, ap, aa, rdvars, agvars, ctxvars>>

\* reviewRepo.SaveToES: upsert under the review id; a failure is logged.
SaveToES(t) ==
    /\ task[t].pc = "es"
    /\ \E ok \in BOOLEAN :
          /\ es' = IF ok THEN [es EXCEPT ![task[t].audited.review_id] = task[t].audited]
                   ELSE es
          /\ task' = [task EXCEPT ![t] = [@ EXCEPT !.pc = "done",
                                                  !.failed = @ \/ ~ok]]
    /\ UNCHANGED <<reviews, replies, appeals, cr, oper, rp, ap, aa, rdvars, agvars, ctxvars>>

\* ----------------------------------------------------------- operator audit
\* ReviewUsecase.AuditReview: the review must exist and be pending.
AuditReview(o) ==
    /\ oper[o].pc = "start"
    /\ \E rid \in Creators, st \in {StatusApproved, StatusRejected} :
          oper' = [oper EXCEPT ![o] =
                      IF GetReviewByReviewID(rid) = NoRow THEN Failed(OperIdle, "not found")
                      ELSE IF ~Auditable(GetReviewByReviewID(rid))
                      THEN [Failed(OperIdle, "not pending") EXCEPT !.rid = rid]
                      ELSE [@ EXCEPT !.rid = rid, !.status = st, !.pc = "read"]]
    /\ UNCHANGED <<reviews, replies, appeals, es, cr, task, rp, ap, aa, rdvars, agvars, ctxvars>>

OperAuditRead(o) ==
    /\ oper[o].pc = "read"
    /\ LET r == GetReviewByReviewID(oper[o].rid)
       IN oper' = [oper EXCEPT ![o] =
                     IF Auditable(r)
                     THEN [@ EXCEPT !.pc = "write", !.snap = r]
                     ELSE [Failed(OperIdle, "not pending") EXCEPT !.rid = oper[o].rid]]
    /\ UNCHANGED <<reviews, replies, appeals, es, cr, task, rp, ap, aa, rdvars, agvars, ctxvars>>

OperAuditWrite(o) ==
    /\ oper[o].pc = "write"
    /\ \E llm \in LLMOutcomes :
          LET m == ModerateText(llm)
          IN IF m.err
             THEN /\ reviews' = RowsAfterAudit(oper[o].rid, m)
                  /\ oper' = [oper EXCEPT ![o] =
                               [Failed(OperIdle, "moderation") EXCEPT
                                   !.rid = oper[o].rid, !.llm = llm]]
             ELSE /\ reviews' = RowsAfterAudit(oper[o].rid, m)
                  /\ oper' = [oper EXCEPT ![o] = [@ EXCEPT !.pc = "done", !.llm = llm]]
    /\ UNCHANGED <<replies, appeals, es, cr, task, rp, ap, aa, rdvars, agvars, ctxvars>>

\* -------------------------------------------------------------------- Reply
\* Outcomes of a transaction closure: it commits, or its first or its
\* second statement fails and it rolls back.
TxOutcomes == {"commit", "fail1", "fail2"}

\* The error of SaveReply's checks on the review it read for a reply of
\* store s, "" when both pass: has_reply first, then the store.
ReplyRefusedNever(review, s) == ""

ReplyRefused(review, s) ==
    IF review.has_reply = 1 THEN "replied"
    ELSE IF review.store_id # s THEN "other store"
    ELSE ""

\* reviewRepo.SaveReply, the checks before the transaction.
SaveReplyCheck(r) ==
    /\ rp[r].pc = "start"
    /\ \E rid \in Creators, s \in Stores :
          LET review == GetReviewByReviewID(rid)
          IN rp' = [rp EXCEPT ![r] =
                      IF review = NoRow THEN Failed(RpIdle, "not found")
                      ELSE IF ReplyRefused(review, s) # ""
                      THEN [Failed(RpIdle, ReplyRefused(review, s)) EXCEPT
                               !.rid = rid, !.store = s]
                      ELSE [@ EXCEPT !.rid = rid, !.store = s, !.pc = "txn"]]
    /\ UNCHANGED <<reviews, replies, appeals, es, cr, task, oper, ap, aa, rdvars, agvars, ctxvars>>

NewReply(r) == [reply_id |-> GenID(r), review_id |-> rp[r].rid, store_id |-> rp[r].store]

\* reviewRepo.SaveReply, the transaction; its error is dropped and the
\* reply returned.
SaveReplyTx(r) ==
    /\ rp[r].pc = "txn"
    /\ \E out \in TxOutcomes :
          /\ reviews' = IF out = "commit" THEN UpdateHasReply(reviews, rp[r].rid)
                        ELSE reviews
          /\ replies' = IF out = "commit" THEN Append(replies, NewReply(r)) ELSE replies
          /\ rp' = [rp EXCEPT ![r] = [@ EXCEPT !.pc = "done",
                                                !.committed = (out = "commit")]]
    /\ UNCHANGED <<appeals, es, cr, task, oper, ap, aa, rdvars, agvars, ctxvars>>

\* ------------------------------------------------------------ appeal submit
\* review.Status != 20 refuses the appeal.
AppealableAlways(review) == TRUE

Appealable(review) == review.status = StatusApproved

\* ReviewUsecase.AppealReview: the review must exist and be approved.
AppealReview(s) ==
    /\ ap[s].pc = "start"
    /\ \E rid \in Creators, st \in Stores :
          LET review == GetReviewByReviewID(rid)
          IN ap' = [ap EXCEPT ![s] =
                      IF review = NoRow THEN Failed(ApIdle, "not found")
                      ELSE IF ~Appealable(review)
                      THEN [Failed(ApIdle, "not approved") EXCEPT !.rid = rid]
                      ELSE [@ EXCEPT !.rid = rid, !.store = st, !.pc = "find"]]
    /\ UNCHANGED <<reviews, replies, appeals, es, cr, task, oper, rp, aa, rdvars, agvars, ctxvars>>

\* reviewRepo.AppealReview, the checks: the store owns the review, and the
\* first appeal found for it, if any, is pending.
AppealReviewFind(s) ==
    /\ ap[s].pc = "find"
    /\ LET review == GetReviewByReviewID(ap[s].rid)
           found == AppealsByReview(ap[s].rid)
       IN ap' = [ap EXCEPT ![s] =
                   IF review = NoRow THEN Failed(ApIdle, "not found")
                   ELSE IF review.store_id # ap[s].store
                   THEN Failed(ApIdle, "other store")
                   ELSE IF found # <<>> /\ Head(found).status # AppealPending
                   THEN Failed(ApIdle, "decided")
                   ELSE [@ EXCEPT !.pc = "save",
                                  !.existing = IF found = <<>> THEN NoAppeal
                                               ELSE Head(found)]]
    /\ UNCHANGED <<reviews, replies, appeals, es, cr, task, oper, rp, aa, rdvars, agvars, ctxvars>>

NewAppeal(s) ==
    [appeal_id |-> GenID(s), review_id |-> ap[s].rid, store_id |-> ap[s].store,
     status |-> AppealPending, reason |-> s, content |-> s, op_user |-> ""]

\* reviewRepo.AppealReview, the write: update the appeal found, or create.
AppealReviewSave(s) ==
    /\ ap[s].pc = "save"
    /\ appeals' = IF ap[s].existing # NoAppeal
                  THEN UpdateAppealText(appeals, ap[s].existing.appeal_id, s, s)
                  ELSE Append(appeals, NewAppeal(s))
    /\ ap' = [ap EXCEPT ![s] = [@ EXCEPT !.pc = "done"]]
    /\ UNCHANGED <<reviews, replies, es, cr, task, oper, rp, aa, rdvars, agvars, ctxvars>>

\* ------------------------------------------------------------- appeal audit
Decisions == {AppealUpheld, AppealRejected, 40}

\* The review status an appeal decision forces.
ReviewStatusFor(d) == IF d = AppealUpheld THEN StatusHidden ELSE StatusRejected

\* param.Status != 20 && param.Status != 30 refuses the audit.
ValidDecisionAny(d) == TRUE

ValidDecision(d) == d = AppealUpheld \/ d = AppealRejected

\* ReviewUsecase.AuditAppeal and reviewRepo.AuditAppeal up to the
\* transaction: a valid decision, an existing appeal, pending when read.
AuditAppeal(q) ==
    /\ aa[q].pc = "start"
    /\ \E id \in Appellants, d \in Decisions :
          LET found == AppealsByID(id)
          IN aa' = [aa EXCEPT ![q] =
                      IF ~ValidDecision(d)
                      THEN [Failed(AaIdle, "invalid decision") EXCEPT !.decision = d]
                      ELSE IF found = <<>> THEN Failed(AaIdle, "not found")
                      ELSE IF Head(found).status # AppealPending
                      THEN Failed(AaIdle, "decided")
                      ELSE [@ EXCEPT !.id = id, !.decision = d, !.pc = "txn",
                                     !.review_id = Head(found).review_id]]
    /\ UNCHANGED <<reviews, replies, appeals, es, cr, task, oper, rp, ap, rdvars, agvars, ctxvars>>

\* AuditAppeal without the transaction: the appeal update stays when the
\* review update fails.
AuditAppealTablesNoTx(q, out) ==
    [appeals |-> IF out \in {"commit", "fail2"}
                 THEN UpdateAppealAudit(appeals, aa[q].id, aa[q].decision, "op", OpReason)
                 ELSE appeals,
     reviews |-> IF out = "commit"
                 THEN UpdateReviewByAppeal(reviews, aa[q].review_id,
                                           ReviewStatusFor(aa[q].decision), "op")
                 ELSE reviews]

\* The tables after the transaction of AuditAppeal ended with out.
AuditAppealTables(q, out) ==
    IF out = "commit"
    THEN [appeals |-> UpdateAppealAudit(appeals, aa[q].id, aa[q].decision, "op", OpReason),
          reviews |-> UpdateReviewByAppeal(reviews, aa[q].review_id,
                                           ReviewStatusFor(aa[q].decision), "op")]
    ELSE [appeals |-> appeals, reviews |-> reviews]

\* reviewRepo.AuditAppeal, the transaction.
AuditAppealTx(q) ==
    /\ aa[q].pc = "txn"
    /\ \E out \in TxOutcomes :
          /\ appeals' = AuditAppealTables(q, out).appeals
          /\ reviews' = AuditAppealTables(q, out).reviews
          /\ aa' = [aa EXCEPT ![q] = [@ EXCEPT
                       !.pc = IF out = "commit" THEN "done" ELSE "fail",
                       !.err = IF out = "commit" THEN "" ELSE "db"]]
    /\ UNCHANGED <<replies, es, cr, task, oper, rp, ap, rdvars, agvars, ctxvars>>

\* -------------------------------------------------------- paged read path
\* The field a target is searched by in GetDataFromES ("" is its error).
FieldName(target) ==
    IF target = "store" THEN "store_id"
    ELSE IF target = "user" THEN "user_id"
    ELSE IF target = "status" THEN "status"
    ELSE ""

\* json.Marshal(resp.Hits): the bytes of a page of hits.
Marshal(hits) == <<"hits", hits>>

\* es.Search().Index(...).Query(term field = id).From(offset).Size(limit):
\* the hits, in document order.
Min(a, b) == IF a < b THEN a ELSE b
SearchByTerm(field, id, offset, limit) ==
    LET hits == SelectSeq(es, LAMBDA d : d # NoRow /\ d[field] = id)
    IN SubSeq(hits, offset + 1, Min(offset + limit, Len(hits)))

\* singleflight.Group.Do joins a caller to the call in flight for its key.
InFlight(k) == flights[k] # NoFlight

\* A caller that never finds a call in flight.
InFlightNever(k) == FALSE

JoinsFlight(k) == InFlight(k)

\* What GetDataBySingleFlight returns from the shared (v, err) of Do.
Shared(v, err) == IF err # "" THEN [data |-> <<>>, err |-> err] ELSE [data |-> v, err |-> ""]

\* The call led by c ends with (v, err): Do forgets the key and hands the
\* result to the leader and to every caller waiting on the call.
Deliver(c, v, err) ==
    /\ flights' = [flights EXCEPT ![rd[c].key] = NoFlight]
    /\ rd' = [w \in Readers |->
                IF w = c \/ (rd[w].pc = "wait" /\ rd[w].leader = c)
                THEN [rd[w] EXCEPT !.pc = "done", !.res = Shared(v, err)]
                ELSE rd[w]]

\* ListReviewByStoreID1 / ListReviewByUserID1 / listReviewsByStatusFromES up
\* to g.Do: compose the key, join the call in flight or start one.
ListReview(c) ==
    /\ rd[c].pc = "start"
    /\ \E target \in Targets, k \in Keys :
          IF JoinsFlight(k)
          THEN /\ rd' = [rd EXCEPT ![c] = [@ EXCEPT !.pc = "wait", !.key = k,
                                                     !.target = target,
                                                     !.leader = flights[k]]]
               /\ flights' = flights
          ELSE /\ rd' = [rd EXCEPT ![c] = [@ EXCEPT !.pc = "cache", !.key = k,
                                                     !.target = target, !.leader = c]]
               /\ flights' = [flights EXCEPT ![k] = c]
    /\ UNCHANGED <<cache, searches, dbvars, agvars, ctxvars>>

\* GetDataFromCache inside the call: a hit, a miss (redis.Nil) or an error.
GetDataFromCache(c) ==
    /\ rd[c].pc = "cache"
    /\ \E ok \in BOOLEAN :
          IF ~ok
          THEN Deliver(c, <<>>, "redis")
          ELSE IF cache[rd[c].key] # Miss
          THEN Deliver(c, cache[rd[c].key], "")
          ELSE /\ rd' = [rd EXCEPT ![c] = [@ EXCEPT !.pc = "es"]]
               /\ flights' = flights
    /\ UNCHANGED <<cache, searches, dbvars, agvars, ctxvars>>

\* GetDataFromES inside the call: parse the key, search, marshal the hits.
GetDataFromES(c) ==
    /\ rd[c].pc = "es"
    /\ IF FieldName(rd[c].target) = ""
       THEN /\ Deliver(c, <<>>, "invalid target")
            /\ searches' = searches
       ELSE /\ searches' = [searches EXCEPT ![c] = @ + 1]
            /\ \E ok \in BOOLEAN :
                  IF ok
                  THEN /\ rd' = [rd EXCEPT ![c] = [@ EXCEPT
                                    !.pc = "set",
                                    !.data = Marshal(SearchByTerm(FieldName(rd[c].target),
                                                                 KeyID(rd[c].key),
                                                                 KeyOffset(rd[c].key),
                                                                 KeyLimit(rd[c].key)))]]
                       /\ flights' = flights
                  ELSE Deliver(c, <<>>, "es")
    /\ UNCHANGED <<cache, dbvars, agvars, ctxvars>>

\* SetCache inside the call; the call returns (data, SetCache's error).
SetCache(c) ==
    /\ rd[c].pc = "set"
    /\ \E ok \in BOOLEAN :
          /\ cache' = IF ok THEN [cache EXCEPT ![rd[c].key] = rd[c].data] ELSE cache
          /\ Deliver(c, rd[c].data, IF ok THEN "" ELSE "redis")
    /\ UNCHANGED <<searches, dbvars, agvars, ctxvars>>

\* The 60 s TTL of a cached page runs out.
CacheExpire(k) ==
    /\ cache[k] # Miss
    /\ cache' = [cache EXCEPT ![k] = Miss]
    /\ UNCHANGED <<flights, rd, searches, dbvars, agvars, ctxvars>>

\* --------------------------------------------------------------- agent tools
\* float64 claims, counted in halves (3 is 1.5); int64(f) truncates.
Float(n) == 2 * n
Int64(f) == f \div 2

\* A JWT claim: its value, or absent (or not of the asserted Go type).
Claim(v) == [ok |-> TRUE, v |-> v]
AbsentNumber == [ok |-> FALSE, v |-> 0]
AbsentString == [ok |-> FALSE, v |-> ""]

UserClaims == {AbsentNumber, Claim(Float(UserOf(1))), Claim(Float(UserOf(1)) + 1)}
RoleClaims == {AbsentString} \cup
              {Claim(r) : r \in {"customer", "merchant", "reviewer", "admin"}}
StoreClaims == {AbsentNumber, Claim(Float(1) + 1)} \cup {Claim(Float(s)) : s \in Stores}

\* The request context: no token, or the claims of a verified token.
NoToken == [token |-> FALSE, user_id |-> AbsentNumber, role |-> AbsentString,
            store_id |-> AbsentNumber]
Contexts ==
    {NoToken} \cup
    {[token |-> TRUE, user_id |-> u, role |-> r, store_id |-> s] :
        u \in UserClaims, r \in RoleClaims, s \in StoreClaims}

\* userFromContext: (*authedUser, error); a nil user comes with an error.
userFromContext(ctx) ==
    IF ~ctx.token THEN [user |-> NilUser, err |-> "missing jwt token"]
    ELSE IF ~ctx.user_id.ok THEN [user |-> NilUser, err |-> "user not found"]
    ELSE IF ~ctx.role.ok THEN [user |-> NilUser, err |-> "role invalid"]
    ELSE [user |-> [UserID |-> Int64(ctx.user_id.v),
                    Role |-> ctx.role.v,
                    StoreID |-> IF ctx.store_id.ok THEN Int64(ctx.store_id.v) ELSE 0],
          err |-> ""]

\* The arguments string: malformed JSON, or an object with one field whose
\* value is a JSON number or a JSON string (a sequence of characters).
ArgStrings == {<<>>, <<"x">>, <<"0", "1">>, <<"-", "1">>} \cup
              {<<"1">>, <<"2">>, <<"+", "2">>}
BadJSON == [valid |-> FALSE, field |-> "", type |-> "", chars |-> <<>>]
Arguments ==
    {BadJSON} \cup
    {[valid |-> TRUE, field |-> f, type |-> "number", chars |-> <<>>] :
        f \in {"storeID", "reviewID"}} \cup
    {[valid |-> TRUE, field |-> f, type |-> "string", chars |-> s] :
        f \in {"storeID", "reviewID"}, s \in ArgStrings}

\* json.Unmarshal into a struct with one string field named f.
Unmarshal(arguments, f) ==
    IF ~arguments.valid THEN [s |-> <<>>, err |-> TRUE]
    ELSE IF arguments.field # f THEN [s |-> <<>>, err |-> FALSE]
    ELSE IF arguments.type # "string" THEN [s |-> <<>>, err |-> TRUE]
    ELSE [s |-> arguments.chars, err |-> FALSE]

\* strconv.ParseInt(s, 10, 64) on the short strings of ArgStrings.
Digits == <<"0", "1", "2", "3", "4", "5", "6", "7", "8", "9">>
IsDigit(ch) == \E d \in DOMAIN Digits : Digits[d] = ch
DigitVal(ch) == (CHOOSE d \in DOMAIN Digits : Digits[d] = ch) - 1
RECURSIVE Decimal(_)
Decimal(s) == IF s = <<>> THEN 0
              ELSE 10 * Decimal(SubSeq(s, 1, Len(s) - 1)) + DigitVal(s[Len(s)])
ParseInt(s) ==
    LET signed == s # <<>> /\ Head(s) \in {"+", "-"}
        body == IF signed THEN Tail(s) ELSE s
    IN IF body = <<>> \/ \E i \in DOMAIN body : ~IsDigit(body[i])
       THEN [n |-> 0, err |-> TRUE]
       ELSE [n |-> IF signed /\ Head(s) = "-" THEN 0 - Decimal(body) ELSE Decimal(body),
             err |-> FALSE]

Tools == {"GetReview", "ListReviewByStoreID", "ListMyReviews", "DeleteReview"}

\* CallTool's first check: the role is one of the three known roles.
ValidRoleAny(role) == TRUE

ValidRole(role) == role \in {"customer", "merchant", "reviewer"}

\* The merchant store check never refuses.
StoreCheckOff(user, storeID) == FALSE

\* A merchant asks for a store other than their own.
StoreForbidden(user, storeID) == user.Role = "merchant" /\ user.StoreID # storeID

\* ListMyReviews is open to every valid role.
MyReviewsOpen(user) == FALSE

\* ListMyReviews is refused to every role but customer.
MyReviewsForbidden(user) == user.Role # "customer"

\* A call that returned the error e before any usecase was invoked.
Refused(e) == [AgIdle EXCEPT !.pc = "fail", !.err = e]

\* A call that reached the usecase call of its tool.
Invoking(user, tool, id, call) ==
    [AgIdle EXCEPT !.pc = "usecase", !.user = user, !.tool = tool, !.id = id,
                   !.invoked = call]

\* CallTool up to the usecase call (or to its early return).
ToolGate(ctx, toolName, arguments) ==
    LET got == userFromContext(ctx)
        user == got.user
        field == IF toolName = "GetReview" THEN "reviewID" ELSE "storeID"
        args == Unmarshal(arguments, field)
        num == ParseInt(args.s)
        outcome ==
            IF ~ValidRole(user.Role) THEN Refused("FORBIDDEN")
            ELSE IF toolName = "GetReview"
            THEN IF args.err \/ num.err THEN Refused("INVALID_ARGUMENTS")
                 ELSE Invoking(user, toolName, num.n,
                               [name |-> "GetReview", id |-> num.n, page |-> 0, size |-> 0])
            ELSE IF toolName = "ListReviewByStoreID"
            THEN IF args.err \/ num.err THEN Refused("INVALID_ARGUMENTS")
                 ELSE IF StoreForbidden(user, num.n)
                 THEN [Refused("FORBIDDEN") EXCEPT !.user = user, !.tool = toolName,
                                                   !.id = num.n]
                 ELSE Invoking(user, toolName, num.n,
                               [name |-> "ListReviewByStoreID", id |-> num.n,
                                page |-> 1, size |-> 10])
            ELSE IF toolName = "ListMyReviews"
            THEN IF MyReviewsForbidden(user) THEN Refused("FORBIDDEN")
                 ELSE Invoking(user, toolName, user.UserID,
                               [name |-> "ListReviewByUserID", id |-> user.UserID,
                                page |-> 1, size |-> 10])
            ELSE Refused("TOOL_NOT_FOUND")
    IN IF got.err # "" THEN [AgIdle EXCEPT !.pc = "panic", !.err = "nil dereference"]
       ELSE [outcome EXCEPT !.asked = [Role |-> user.Role, tool |-> toolName]]

CallTool(c) ==
    /\ ag[c].pc = "start"
    /\ \E ctx \in Contexts, toolName \in Tools, arguments \in Arguments :
          ag' = [ag EXCEPT ![c] = ToolGate(ctx, toolName, arguments)]
    /\ UNCHANGED <<dbvars, rdvars, memvars, ctxvars>>

\* summarizeResult fails when the LLM call fails.
summarizeResultOrFail(llm, raw) ==
    IF llm THEN [result |-> "summary", err |-> ""]
    ELSE [result |-> "", err |-> "LLM summarization failed"]

\* summarizeResult(ctx, originalQuery, result) for a marshalled result raw:
\* the LLM's summary, or raw itself with a nil error when the LLM call fails.
summarizeResult(llm, raw) ==
    [result |-> IF llm THEN "summary" ELSE raw, err |-> ""]

\* The usecase returns (rawResult, err) and CallTool finishes. In the
\* GetReview and ListReviewByStoreID cases err is the case's own variable
\* (declared by := next to the parsed id), so the check after the switch
\* never sees it; summarizeResult falls back to the raw JSON when the LLM
\* fails.
ToolReturn(c) ==
    /\ ag[c].pc = "usecase"
    /\ \E ok \in BOOLEAN, llm \in BOOLEAN :
          LET sum == summarizeResult(llm, IF ok THEN "raw" ELSE "null")
          IN ag' = [ag EXCEPT ![c] =
                      IF ~ok /\ ag[c].tool = "ListMyReviews"
                      THEN [@ EXCEPT !.pc = "fail", !.err = "usecase",
                                     !.usecaseErr = TRUE]
                      ELSE [@ EXCEPT !.pc = IF sum.err = "" THEN "done" ELSE "fail",
                                     !.err = sum.err, !.result = sum.result,
                                     !.usecaseErr = ~ok, !.llmErr = ~llm]]
    /\ UNCHANGED <<dbvars, rdvars, memvars, ctxvars>>

\* ---------------------------------------------------------- session memory
\* The slice appendHistory stores back: all of h, or its last MemoryCap
\* messages when it is longer.
KeepAll(h) == h

Newest(h) ==
    IF Len(h) > MemoryCap THEN SubSeq(h, Len(h) - MemoryCap + 1, Len(h)) ELSE h

\* getHistory: a copy of the session's messages, taken under the shared lock.
getHistory(sessionID) ==
    IF sessionID = NoSession THEN <<>> ELSE memory[sessionID]

\* appendHistory: the whole body runs under the exclusive lock.
appendHistory(sessionID, msg) ==
    IF sessionID = NoSession THEN memory
    ELSE [memory EXCEPT ![sessionID] = Newest(Append(@, msg))]

\* The query of Process call c and the final answer the LLM gives to it.
Query(c) == <<"query", c>>
Answer(c) == <<"answer", c>>

\* Process is called and copies the session's history for the prompt.
Process(c) ==
    /\ pr[c].pc = "start"
    /\ \E sessionID \in Sessions \cup {NoSession} :
          pr' = [pr EXCEPT ![c] = [@ EXCEPT !.pc = "llm", !.sessionID = sessionID,
                                            !.history = getHistory(sessionID)]]
    /\ UNCHANGED <<memory, ag, dbvars, rdvars, ctxvars>>

\* The LLM fails, or its response parses to a tool call (no final answer)
\* or to a final answer; parseLLMResponse itself never fails.
Generate(c) ==
    /\ pr[c].pc = "llm"
    /\ \E out \in {"error", "tool", "final"} :
          pr' = [pr EXCEPT ![c] =
                   IF out = "error" THEN Failed(@, "LLM generation failed")
                   ELSE [@ EXCEPT !.pc = "user",
                                  !.FinalAnswer = IF out = "final" THEN Answer(c)
                                                  ELSE <<>>]]
    /\ UNCHANGED <<memory, ag, dbvars, rdvars, ctxvars>>

\* The assistant entry is never stored.
AfterUserDone(finalAnswer) == "done"

\* if resp.FinalAnswer != "": the assistant entry follows the user entry.
AfterUser(finalAnswer) == IF finalAnswer # <<>> THEN "assistant" ELSE "done"

\* uc.appendHistory(sessionID, message{Role: "user", Text: query})
AppendUser(c) ==
    /\ pr[c].pc = "user"
    /\ memory' = appendHistory(pr[c].sessionID, message("user", Query(c)))
    /\ pr' = [pr EXCEPT ![c].pc = AfterUser(pr[c].FinalAnswer)]
    /\ UNCHANGED <<ag, dbvars, rdvars, ctxvars>>

\* uc.appendHistory(sessionID, message{Role: "assistant", Text: resp.FinalAnswer})
AppendAssistant(c) ==
    /\ pr[c].pc = "assistant"
    /\ memory' = appendHistory(pr[c].sessionID,
                               message("assistant", pr[c].FinalAnswer))
    /\ pr' = [pr EXCEPT ![c].pc = "done"]
    /\ UNCHANGED <<ag, dbvars, rdvars, ctxvars>>

\* ------------------------------------------------------- request contexts
\* context.Background(): the context no request can cancel. Any other
\* context is named by the request that owns it.
Background == 0
Canceled(c) == c # Background /\ reqctx[c] = "canceled"

\* The task runs under the context of the request that launched it.
TaskCtxOfRequest(t) == t

\* syncAndAudit: ctx := context.Background().
TaskCtx(t) == Background

\* The client goes away, or the handler returns: the request context of a
\* received request is canceled.
Cancel(p) ==
    /\ cr[p].pc \notin {"off", "start"}
    /\ reqctx[p] = "live"
    /\ reqctx' = [reqctx EXCEPT ![p] = "canceled"]
    /\ UNCHANGED <<dbvars, rdvars, agvars>>

\* A statement of the Create request p: under a canceled context the
\* statement fails; a failed re-read still returns the pre-update record.
RequestStep(p) ==
    IF Canceled(p)
    THEN /\ cr[p].pc \in {"save", "insert", "append", "reread"}
         /\ cr' = [cr EXCEPT ![p] =
                      IF cr[p].pc = "reread"
                      THEN [@ EXCEPT !.pc = "done", !.ret = cr[p].existing]
                      ELSE [@ EXCEPT !.pc = "fail"]]
         /\ UNCHANGED <<reviews, replies, appeals, es, task, oper, rp, ap, aa,
                        rdvars, agvars, ctxvars>>
    ELSE \/ CreateReview(p)
         \/ SaveReviewFind(p)
         \/ SaveReviewCreate(p)
         \/ SaveReviewAppend(p)
         \/ SaveReviewReread(p)

\* A statement of the task t: under a canceled context the audit's read and
\* the index call fail, and the task ends having moderated and indexed
\* nothing.
TaskStep(t) ==
    IF Canceled(TaskCtx(t))
    THEN /\ task[t].pc \in {"read", "write", "ret", "es"}
         /\ task' = [task EXCEPT ![t] = [@ EXCEPT !.pc = "aborted"]]
         /\ UNCHANGED <<reviews, replies, appeals, es, cr, oper, rp, ap, aa,
                        rdvars, agvars, ctxvars>>
    ELSE \/ TaskAuditRead(t)
         \/ TaskAuditWrite(t)
         \/ TaskAuditReturn(t)
         \/ SaveToES(t)

\* ------------------------------------------------------------ specifications
\* A review stored earlier for order 1 by its customer, pending or already
\* audited by the AI.
SeedStatuses == {StatusPending, StatusApproved, StatusRejected}
SeedReview(st) ==
    [NewReview(1, 1, StoreOf(1)) EXCEPT
        !.status = st,
        !.update_by = IF st = StatusPending THEN "" ELSE "Gemini",
        !.op_remarks = IF st = StatusApproved THEN "ai approved"
                       ELSE IF st = StatusRejected THEN "ai rejected" ELSE ""]

\* Review writes: concurrent Create requests, their async tasks and operator
\* audits, on an empty store.
InitReview == InitWith(Creators, Operators, {}, {}, {}, {}, {}, <<>>, EmptyIndex)

NextReview ==
    \/ \E p \in Creators : CreateReview(p)
    \/ \E p \in Creators : SaveReviewFind(p)
    \/ \E p \in Creators : SaveReviewCreate(p)
    \/ \E p \in Creators : SaveReviewAppend(p)
    \/ \E p \in Creators : SaveReviewReread(p)
    \/ \E t \in Creators : TaskAuditRead(t)
    \/ \E t \in Creators : TaskAuditWrite(t)
    \/ \E t \in Creators : TaskAuditReturn(t)
    \/ \E t \in Creators : SaveToES(t)
    \/ \E o \in Operators : AuditReview(o)
    \/ \E o \in Operators : OperAuditRead(o)
    \/ \E o \in Operators : OperAuditWrite(o)

SpecReview == InitReview /\ [][NextReview]_vars

\* Replies: concurrent Reply requests and operator audits on a stored review.
InitReply ==
    \E st \in SeedStatuses : InitWith({}, Operators, Repliers, {}, {}, {}, {}, <<SeedReview(st)>>, EmptyIndex)

NextReply ==
    \/ \E r \in Repliers : SaveReplyCheck(r)
    \/ \E r \in Repliers : SaveReplyTx(r)
    \/ \E o \in Operators : AuditReview(o)
    \/ \E o \in Operators : OperAuditRead(o)
    \/ \E o \in Operators : OperAuditWrite(o)

SpecReply == InitReply /\ [][NextReply]_vars

\* Appeals: concurrent appeal submissions and appeal audits on a stored review.
InitAppeal ==
    \E st \in SeedStatuses : InitWith({}, {}, {}, Appellants, AppealAuditors, {}, {},
                                    <<SeedReview(st)>>, EmptyIndex)

NextAppeal ==
    \/ \E s \in Appellants : AppealReview(s)
    \/ \E s \in Appellants : AppealReviewFind(s)
    \/ \E s \in Appellants : AppealReviewSave(s)
    \/ \E q \in AppealAuditors : AuditAppeal(q)
    \/ \E q \in AppealAuditors : AuditAppealTx(q)

SpecAppeal == InitAppeal /\ [][NextAppeal]_vars

\* Paged reads: concurrent list requests on a cold cache over an index that
\* holds the documents of the stored, AI-approved reviews.
IndexDoc(i) ==
    [NewReview(i, 1, StoreOf(1)) EXCEPT
        !.status = StatusApproved, !.update_by = "Gemini", !.op_remarks = "ai approved"]
Index == [i \in Creators |-> IndexDoc(i)]

InitRead == InitWith({}, {}, {}, {}, {}, Readers, {}, <<>>, Index)

NextRead ==
    \/ \E c \in Readers : ListReview(c)
    \/ \E c \in Readers : GetDataFromCache(c)
    \/ \E c \in Readers : GetDataFromES(c)
    \/ \E c \in Readers : SetCache(c)
    \/ \E k \in Keys : CacheExpire(k)

SpecRead == InitRead /\ [][NextRead]_vars

\* Agent: CallTool requests under every context, tool and arguments string.
InitAgent == InitWith({}, {}, {}, {}, {}, {}, Callers, <<>>, EmptyIndex)

NextAgent ==
    \/ \E c \in Callers : CallTool(c)
    \/ \E c \in Callers : ToolReturn(c)

SpecAgent == InitAgent /\ [][NextAgent]_vars

\* Audits: a pending review just stored by a Create whose async task is
\* launched, and concurrent operator audits of it.
InitAudit ==
    /\ reviews = <<SeedReview(StatusPending)>>
    /\ replies = <<>>
    /\ appeals = <<>>
    /\ es = EmptyIndex
    /\ cr = [p \in Creators |-> [CrIdle EXCEPT !.pc = "off"]]
    /\ task = [p \in Creators |->
                 IF p = 1 THEN Launch(p, SeedReview(StatusPending)) ELSE TaskOff]
    /\ oper = [o \in Operators |-> OperIdle]
    /\ rp = [r \in Repliers |-> [RpIdle EXCEPT !.pc = "off"]]
    /\ ap = [x \in Appellants |-> [ApIdle EXCEPT !.pc = "off"]]
    /\ aa = [q \in AppealAuditors |-> [AaIdle EXCEPT !.pc = "off"]]
    /\ cache = [k \in Keys |-> Miss]
    /\ flights = [k \in Keys |-> NoFlight]
    /\ rd = [c \in Readers |-> [RdIdle EXCEPT !.pc = "off"]]
    /\ searches = [c \in Readers |-> 0]
    /\ ag = [c \in Callers |-> [AgIdle EXCEPT !.pc = "off"]]
    /\ memory = NoMemory
    /\ pr = [c \in Processors |-> [PrIdle EXCEPT !.pc = "off"]]
    /\ reqctx = [p \in Creators |-> "live"]

NextAudit ==
    \/ \E t \in Creators : TaskAuditRead(t)
    \/ \E t \in Creators : TaskAuditWrite(t)
    \/ \E t \in Creators : TaskAuditReturn(t)
    \/ \E t \in Creators : SaveToES(t)
    \/ \E o \in Operators : AuditReview(o)
    \/ \E o \in Operators : OperAuditRead(o)
    \/ \E o \in Operators : OperAuditWrite(o)

SpecAudit == InitAudit /\ [][NextAudit]_vars

\* Session memory: concurrent Process calls on sessions that earlier calls
\* left all empty, all one message short of the cap, or all at the cap. Earlier calls
\* stored their messages in turn, a query and then its answer.
History(n) ==
    [i \in 1..n |-> IF i % 2 = 1 THEN message("user", <<"query", -i>>)
                    ELSE message("assistant", <<"answer", -i>>)]

Histories == {History(0), History(MemoryCap - 1), History(MemoryCap)}

InitMemory ==
    /\ reviews = <<>>
    /\ replies = <<>>
    /\ appeals = <<>>
    /\ es = EmptyIndex
    /\ cr = [p \in Creators |-> [CrIdle EXCEPT !.pc = "off"]]
    /\ task = [p \in Creators |-> TaskOff]
    /\ oper = [o \in Operators |-> [OperIdle EXCEPT !.pc = "off"]]
    /\ rp = [r \in Repliers |-> [RpIdle EXCEPT !.pc = "off"]]
    /\ ap = [x \in Appellants |-> [ApIdle EXCEPT !.pc = "off"]]
    /\ aa = [q \in AppealAuditors |-> [AaIdle EXCEPT !.pc = "off"]]
    /\ cache = [k \in Keys |-> Miss]
    /\ flights = [k \in Keys |-> NoFlight]
    /\ rd = [c \in Readers |-> [RdIdle EXCEPT !.pc = "off"]]
    /\ searches = [c \in Readers |-> 0]
    /\ ag = [c \in Callers |-> [AgIdle EXCEPT !.pc = "off"]]
    /\ \E h \in Histories : memory = [s \in Sessions |-> h]
    /\ pr = [c \in Processors |-> PrIdle]
    /\ reqctx = [p \in Creators |-> "live"]

NextMemory ==
    \/ \E c \in Processors : Process(c)
    \/ \E c \in Processors : Generate(c)
    \/ \E c \in Processors : AppendUser(c)
    \/ \E c \in Processors : AppendAssistant(c)

SpecMemory == InitMemory /\ [][NextMemory]_vars

\* All writers of one review: the review of order 1 is stored, a second
\* Create for that order passed the usecase lookup before it was inserted,
\* and two Replies, an appeal submission and an appeal audit arrive; the
\* append's task audits the review.
InitWriters ==
    \E st \in SeedStatuses :
       /\ reviews = <<SeedReview(st)>>
       /\ replies = <<>>
       /\ appeals = <<>>
       /\ es = EmptyIndex
       /\ cr = [p \in Creators |->
                  IF p = 2 THEN [CrIdle EXCEPT !.pc = "save", !.order = 1]
                  ELSE [CrIdle EXCEPT !.pc = "off"]]
       /\ task = [p \in Creators |-> TaskOff]
       /\ oper = [o \in Operators |-> [OperIdle EXCEPT !.pc = "off"]]
       /\ rp = [r \in Repliers |-> IF r \in {1, 2} THEN RpIdle ELSE [RpIdle EXCEPT !.pc = "off"]]
       /\ ap = [x \in Appellants |-> IF x = 1 THEN ApIdle ELSE [ApIdle EXCEPT !.pc = "off"]]
       /\ aa = [q \in AppealAuditors |-> IF q = 1 THEN AaIdle ELSE [AaIdle EXCEPT !.pc = "off"]]
       /\ cache = [k \in Keys |-> Miss]
       /\ flights = [k \in Keys |-> NoFlight]
       /\ rd = [c \in Readers |-> [RdIdle EXCEPT !.pc = "off"]]
       /\ searches = [c \in Readers |-> 0]
       /\ ag = [c \in Callers |-> [AgIdle EXCEPT !.pc = "off"]]
       /\ memory = NoMemory
       /\ pr = [c \in Processors |-> [PrIdle EXCEPT !.pc = "off"]]
       /\ reqctx = [p \in Creators |-> "live"]

NextWriters ==
    \/ \E p \in Creators : SaveReviewFind(p)
    \/ \E p \in Creators : SaveReviewAppend(p)
    \/ \E p \in Creators : SaveReviewReread(p)
    \/ \E t \in Creators : TaskAuditRead(t)
    \/ \E t \in Creators : TaskAuditWrite(t)
    \/ \E t \in Creators : TaskAuditReturn(t)
    \/ \E t \in Creators : SaveToES(t)
    \/ \E r \in Repliers : SaveReplyCheck(r)
    \/ \E r \in Repliers : SaveReplyTx(r)
    \/ \E x \in Appellants : AppealReview(x)
    \/ \E x \in Appellants : AppealReviewFind(x)
    \/ \E x \in Appellants : AppealReviewSave(x)
    \/ \E q \in AppealAuditors : AuditAppeal(q)
    \/ \E q \in AppealAuditors : AuditAppealTx(q)

SpecWriters == InitWriters /\ [][NextWriters]_vars

\* Appends: a review stored earlier for order 1, and concurrent Creates for
\* that order that all passed the usecase lookup before it was inserted;
\* each appends its own content and launches its task.
EarlierContent == NumCreate + 1

InitAppend ==
    \E st \in SeedStatuses :
       /\ reviews = <<[SeedReview(st) EXCEPT !.content = <<EarlierContent>>]>>
       /\ replies = <<>>
       /\ appeals = <<>>
       /\ es = EmptyIndex
       /\ cr = [p \in Creators |-> [CrIdle EXCEPT !.pc = "save", !.order = 1]]
       /\ task = [p \in Creators |-> TaskOff]
       /\ oper = [o \in Operators |-> [OperIdle EXCEPT !.pc = "off"]]
       /\ rp = [r \in Repliers |-> [RpIdle EXCEPT !.pc = "off"]]
       /\ ap = [x \in Appellants |-> [ApIdle EXCEPT !.pc = "off"]]
       /\ aa = [q \in AppealAuditors |-> [AaIdle EXCEPT !.pc = "off"]]
       /\ cache = [k \in Keys |-> Miss]
       /\ flights = [k \in Keys |-> NoFlight]
       /\ rd = [c \in Readers |-> [RdIdle EXCEPT !.pc = "off"]]
       /\ searches = [c \in Readers |-> 0]
       /\ ag = [c \in Callers |-> [AgIdle EXCEPT !.pc = "off"]]
       /\ memory = NoMemory
       /\ pr = [c \in Processors |-> [PrIdle EXCEPT !.pc = "off"]]
       /\ reqctx = [p \in Creators |-> "live"]

NextAppend ==
    \/ \E p \in Creators : SaveReviewFind(p)
    \/ \E p \in Creators : SaveReviewAppend(p)
    \/ \E p \in Creators : SaveReviewReread(p)
    \/ \E t \in Creators : TaskAuditRead(t)
    \/ \E t \in Creators : TaskAuditWrite(t)
    \/ \E t \in Creators : TaskAuditReturn(t)
    \/ \E t \in Creators : SaveToES(t)

SpecAppend == InitAppend /\ [][NextAppend]_vars

\* Unattended audit: two concurrent Create requests on an empty store and
\* their async tasks, with no operator. The goroutine of a task is scheduled as
\* long as it can take a step (weak fairness of each step of each task), the
\* moderation client returns a verdict and the store accepts the update.
TaskAuditVerdict(t) == TaskAuditWrite(t) /\ task'[t].pc = "ret"

InitLive == InitWith({1, 2}, {}, {}, {}, {}, {}, {}, <<>>, EmptyIndex)

NextLive ==
    \/ \E p \in Creators : CreateReview(p)
    \/ \E p \in Creators : SaveReviewFind(p)
    \/ \E p \in Creators : SaveReviewCreate(p)
    \/ \E p \in Creators : SaveReviewAppend(p)
    \/ \E p \in Creators : SaveReviewReread(p)
    \/ \E t \in Creators : TaskAuditRead(t)
    \/ \E t \in Creators : TaskAuditVerdict(t)
    \/ \E t \in Creators : TaskAuditReturn(t)
    \/ \E t \in Creators : SaveToES(t)

SpecLive ==
    /\ InitLive
    /\ [][NextLive]_vars
    /\ \A t \in Creators :
          /\ WF_vars(TaskAuditRead(t))
          /\ WF_vars(TaskAuditVerdict(t))
          /\ WF_vars(TaskAuditReturn(t))
          /\ WF_vars(SaveToES(t))

\* Cancellation: Create requests whose context is canceled at any point
\* after they are received, and their async tasks.
InitCancel == InitWith(Creators, {}, {}, {}, {}, {}, {}, <<>>, EmptyIndex)

NextCancel ==
    \/ \E p \in Creators : RequestStep(p)
    \/ \E p \in Creators : Cancel(p)
    \/ \E t \in Creators : TaskStep(t)

SpecCancel == InitCancel /\ [][NextCancel]_vars

\* ------------------------------------------------------------------ claims
AllowedTransitions ==
    { <<StatusPending, StatusApproved>>, <<StatusPending, StatusRejected>>,
      <<StatusApproved, StatusHidden>>, <<StatusApproved, StatusRejected>> }

\* C1: every change of a review's status is one of 10->20, 10->30, 20->40,
\* 20->30; in particular never 30->20 and never out of 40.
C1_StatusTransitions ==
    [][\A i \in DOMAIN reviews :
          reviews'[i].status # reviews[i].status
             => <<reviews[i].status, reviews'[i].status>> \in AllowedTransitions]_vars

\* C2: the primary store holds at most one review row per order_id.
C2_OneReviewPerOrder ==
    \A o \in Orders : Len(GetReviewByOrderID(o)) <= 1

RepliesTo(id) == SelectSeq(replies, LAMBDA x : x.review_id = id)

\* C3: at most one reply row exists per review_id.
C3_OneReplyPerReview ==
    \A id \in Creators : Len(RepliesTo(id)) <= 1

\* C4: the transaction of an appeal audit either commits both writes
\* (appeal.status = decision and review.status = 40 for decision 20, 30 for
\* decision 30) or changes neither table; no step decides an appeal without
\* forcing the review status, and no step changes the review status without
\* a decided appeal of that review that forces the new status. In every state
\* a decided appeal's review is hidden or rejected (never at its pre-audit
\* status), and a hidden review has an upheld appeal.
C4_AppealAuditAtomic ==
    /\ [](\A i \in DOMAIN appeals :
            appeals[i].status \in {AppealUpheld, AppealRejected}
               => GetReviewByReviewID(appeals[i].review_id).status
                     \in {StatusHidden, StatusRejected})
    /\ [](\A j \in DOMAIN reviews :
            reviews[j].status = StatusHidden
               => \E i \in DOMAIN appeals :
                     /\ appeals[i].review_id = reviews[j].review_id
                     /\ appeals[i].status = AppealUpheld)
    /\ [][/\ \A q \in AppealAuditors :
                (aa[q].pc = "txn" /\ aa'[q].pc # "txn")
                   => IF aa'[q].pc = "done"
                      THEN /\ \E i \in DOMAIN appeals' : appeals'[i].appeal_id = aa[q].id
                           /\ \A i \in DOMAIN appeals' :
                                 appeals'[i].appeal_id = aa[q].id
                                    => appeals'[i].status = aa[q].decision
                           /\ \E j \in DOMAIN reviews' : reviews'[j].review_id = aa[q].review_id
                           /\ \A j \in DOMAIN reviews' :
                                 reviews'[j].review_id = aa[q].review_id
                                    => reviews'[j].status =
                                          (IF aa[q].decision = 20 THEN 40 ELSE 30)
                      ELSE appeals' = appeals /\ reviews' = reviews
          /\ \A i \in DOMAIN appeals :
                appeals'[i].status # appeals[i].status
                   => \A j \in DOMAIN reviews' :
                         reviews'[j].review_id = appeals[i].review_id
                            => reviews'[j].status =
                                  (IF appeals'[i].status = 20 THEN 40 ELSE 30)
          /\ \A j \in DOMAIN reviews :
                reviews'[j].status # reviews[j].status
                   => \E i \in DOMAIN appeals :
                         /\ appeals[i].review_id = reviews[j].review_id
                         /\ appeals'[i].status \in {20, 30}
                         /\ reviews'[j].status =
                               (IF appeals'[i].status = 20 THEN 40 ELSE 30)]_vars

\* C4 witness: an appeal audit committed decision 20; the appeal is upheld
\* and the coupled review hidden.
C4_Witness ==
    \E q \in AppealAuditors :
       /\ aa[q].pc = "done"
       /\ aa[q].decision = 20
       /\ \E i \in DOMAIN appeals : appeals[i].appeal_id = aa[q].id /\ appeals[i].status = 20
       /\ GetReviewByReviewID(aa[q].review_id).status = 40

\* C5: once an appeal is 20 or 30, no appeal audit changes its status.
C5_DecidedOnce ==
    [][\A i \in DOMAIN appeals :
          appeals[i].status \in {AppealUpheld, AppealRejected}
             => appeals'[i].status = appeals[i].status]_vars

\* C6: at most one appeal in the non-terminal state 10 per review.
C6_OnePendingAppeal ==
    \A id \in Creators :
       Cardinality({i \in DOMAIN appeals :
                       appeals[i].review_id = id /\ appeals[i].status = AppealPending}) <= 1

Leading(c) == rd[c].pc \in {"cache", "es", "set"}

\* C7: concurrent paged reads of one key are coalesced: at most one call per
\* key is in flight, only the caller leading it calls the search gateway and
\* at most once, and every caller that joined the call receives the leader's
\* result, bytes or error.
C7_Coalesced ==
    /\ \A k \in Keys : Cardinality({c \in Readers : Leading(c) /\ rd[c].key = k}) <= 1
    /\ \A c \in Readers : searches[c] <= 1
    /\ \A c \in Readers : rd[c].pc \in {"wait", "done"} /\ rd[c].leader # c => searches[c] = 0
    /\ \A c \in Readers :
          rd[c].pc = "done"
             => /\ rd[rd[c].leader].pc = "done"
                /\ rd[c].res = rd[rd[c].leader].res
                /\ rd[c].key = rd[rd[c].leader].key

\* C7 witness: on a cold cache every reader joined the call of one leader,
\* the search gateway was called once in all, and all got the same bytes.
C7_Witness ==
    \E l \in Readers :
       /\ \A c \in Readers : rd[c].pc = "done" /\ rd[c].leader = l /\ rd[c].res = rd[l].res
       /\ rd[l].res.err = ""
       /\ searches[l] = 1
       /\ \A c \in Readers \ {l} : searches[c] = 0

\* C8: a ListReviewByStoreID tool call by a merchant invokes the store listing
\* only for the merchant's own store: with any other storeID it fails with
\* FORBIDDEN and no usecase is invoked; with the own store, and for customers
\* and reviewers with any store, the listing is invoked for exactly that store.
C8_MerchantStoreCheck ==
    \A c \in Callers :
       /\ ag[c].invoked.name = "ListReviewByStoreID"
             => /\ ag[c].tool = "ListReviewByStoreID"
                /\ ag[c].invoked.id = ag[c].id
                /\ ag[c].user.Role = "merchant" => ag[c].id = ag[c].user.StoreID
       /\ ag[c].tool = "ListReviewByStoreID"
             => IF ag[c].user.Role = "merchant" /\ ag[c].id # ag[c].user.StoreID
                THEN ag[c].pc = "fail" /\ ag[c].err = "FORBIDDEN" /\ ag[c].invoked = NoCall
                ELSE /\ ag[c].pc \in {"usecase", "done"}
                     /\ ag[c].invoked = [name |-> "ListReviewByStoreID", id |-> ag[c].id,
                                         page |-> 1, size |-> 10]

\* C8 witness: a merchant of store 1 asked for the listing of store 2 and was
\* refused.
C8_Witness ==
    \E c \in Callers :
       /\ ag[c].tool = "ListReviewByStoreID" /\ ag[c].user.Role = "merchant"
       /\ ag[c].user.StoreID = 1 /\ ag[c].id = 2
       /\ ag[c].pc = "fail" /\ ag[c].err = "FORBIDDEN"

\* C9: an update of a review computed from a stale read (the row changed
\* since the request read it) does not take effect, on the append path and
\* on the AI-audit status update.
C9_StaleUpdateRejected ==
    [][/\ \A p \in Creators :
             (/\ cr[p].pc = "append" /\ cr'[p].pc # "append"
              /\ GetReviewByReviewID(cr[p].existing.review_id) # cr[p].existing)
                => reviews' = reviews
       /\ \A t \in Creators :
             (/\ task[t].pc = "write" /\ task'[t].pc # "write"
              /\ GetReviewByReviewID(task[t].snap.review_id) # task[t].snap)
                => reviews' = reviews
       /\ \A o \in Operators :
             (/\ oper[o].pc = "write" /\ oper'[o].pc # "write"
              /\ GetReviewByReviewID(oper[o].snap.review_id) # oper[o].snap)
                => reviews' = reviews]_vars

\* C10: every mutation of a review row leaves its version greater than before.
C10_VersionIncreases ==
    [][\A i \in DOMAIN reviews :
          reviews'[i] # reviews[i] => reviews'[i].version > reviews[i].version]_vars

\* C11: Review.Create on an order that already has a review never ends with
\* OrderAlreadyReviewed; it appends: the row count is unchanged, the stored
\* content becomes the old content, the header, the new content, and the
\* request returns the existing review_id.
C11_AppendOnReviewedOrder ==
    /\ [](\A p \in Creators : cr[p].pc # "reviewed")
    /\ [][\A p \in Creators :
             (cr[p].pc = "append" /\ cr'[p].pc = "reread")
                => /\ Len(reviews') = Len(reviews)
                   /\ GetReviewByReviewID(cr[p].existing.review_id)' # NoRow
                   /\ GetReviewByReviewID(cr[p].existing.review_id)'.content =
                         GetReviewByReviewID(cr[p].existing.review_id).content
                            \o <<Header>> \o <<p>>]_vars
    /\ [](\A p \in Creators :
            (cr[p].pc = "done" /\ cr[p].existing # NoRow)
               => cr[p].ret.review_id = cr[p].existing.review_id)

\* C12: a successful operator audit with requested status s leaves the
\* review at status s, updated by the operator, whatever the moderation
\* client answered.
C12_OperatorAuditApplies ==
    [][\A o \in Operators :
          (oper[o].pc = "write" /\ oper'[o].pc = "done")
             => /\ GetReviewByReviewID(oper[o].rid)'.status = oper[o].status
                /\ GetReviewByReviewID(oper[o].rid)'.update_by = "op"]_vars

\* C13: when the moderation client call fails during an AI audit, the step
\* changes no review row (the status stays as it was, 10 unless another
\* audit moved it meanwhile) and the audit returns the error: the operator
\* request fails with it, the async task falls back to its own record.
C13_ModerationFailureKeepsReview ==
    [][/\ \A o \in Operators :
             (oper[o].pc = "write" /\ oper'[o].pc # "write" /\ oper'[o].llm.err)
                => /\ reviews' = reviews
                   /\ oper'[o].pc = "fail" /\ oper'[o].err = "moderation"
       /\ \A t \in Creators :
             (task[t].pc = "write" /\ task'[t].pc = "es")
                => reviews' = reviews /\ task'[t].audited = task[t].review]_vars

\* C13 witness: an operator audit failed on a moderation client error and
\* the review is still pending.
C13_Witness ==
    \E o \in Operators :
       /\ oper[o].pc = "fail" /\ oper[o].err = "moderation" /\ oper[o].llm.err
       /\ GetReviewByReviewID(oper[o].rid).status = StatusPending

\* The completion starts with neither the approve nor the reject token.
Indeterminate(llm) ==
    /\ llm # NoCompletion /\ ~llm.err
    /\ ~HasPrefix(llm.text, "shi") /\ ~HasPrefix(llm.text, "fou")

\* C14: a completion that starts with neither token makes ModerateText fail
\* with an error, so the audit that received it fails and changes no review.
C14_IndeterminateIsError ==
    [][\A o \in Operators :
          (oper[o].pc = "write" /\ oper'[o].pc # "write" /\ Indeterminate(oper'[o].llm))
             => /\ ModerateText(oper'[o].llm).err
                /\ reviews' = reviews
                /\ oper'[o].pc = "fail" /\ oper'[o].err = "moderation"]_vars

\* C15: cache failures never surface from the paged read: no read ends with
\* the cache's error, whether the cache read failed with something other
\* than a miss or the cache write failed after a successful search.
C15_CacheErrorsNotSurfaced ==
    \A c \in Readers : rd[c].pc = "done" => rd[c].res.err # "redis"

\* C16: Reply returns success only if its transaction committed; a
\* transaction that failed at either write changed neither table.
C16_ReplySuccessMeansCommitted ==
    /\ [](\A r \in Repliers : rp[r].pc = "done" => rp[r].committed)
    /\ [][\A r \in Repliers :
             (rp[r].pc = "txn" /\ rp'[r].pc # "txn" /\ ~rp'[r].committed)
                => reviews' = reviews /\ replies' = replies]_vars

\* C17: every successful review write, create or append, has launched the
\* async task for the review it returns, also when the re-read after an
\* append failed.
C17_WriteLaunchesTask ==
    \A p \in Creators :
       cr[p].pc = "done"
          => /\ task[p].pc # "off"
             /\ task[p].review.review_id = cr[p].ret.review_id

\* C18: the cancellation of the request that wrote a review, or its
\* completion, never aborts the review's async task: whatever the state of
\* the request context, no statement of a launched task fails on it, and the
\* step that cancels the context changes nothing of the task.
C18_TaskOutlivesRequest ==
    /\ [](\A t \in Creators : task[t].pc # "aborted")
    /\ [](\A t \in Creators : ~Canceled(TaskCtx(t)))
    /\ [][reqctx' # reqctx => task' = task /\ reviews' = reviews /\ es' = es]_vars

\* C18 witness: the request context was canceled before its launched task
\* ran its first statement.
C18_Witness ==
    \E t \in Creators : reqctx[t] = "canceled" /\ task[t].pc = "read"

\* C19: every session's memory holds at most 100 messages in every reachable
\* state, whatever the interleaving of concurrent Process calls; each step
\* that changes a session's memory appends one message and leaves the newest
\* 100 of the result, in their order (the oldest is dropped when the
\* session was full), and changes no other session.
LastOf(h, n) == IF Len(h) > n THEN SubSeq(h, Len(h) - n + 1, Len(h)) ELSE h

C19_MemoryCapped ==
    /\ [](\A s \in Sessions : Len(memory[s]) <= 100)
    /\ [][\A s \in Sessions :
            memory'[s] # memory[s] =>
               /\ \E c \in Processors, role \in {"user", "assistant"} :
                     /\ pr[c].sessionID = s
                     /\ memory'[s] \in
                           {LastOf(Append(memory[s], message(role, t)), 100) :
                              t \in {Query(c), Answer(c)}}
               /\ \A o \in Sessions \ {s} : memory'[o] = memory[o]]_vars

C19_Witness ==
    \E s \in Sessions :
       /\ Len(memory[s]) = 100
       /\ memory[s][99].Text[2] > 0
       /\ memory[s][100].Text[2] > 0
       /\ memory[s][99].Text[2] # memory[s][100].Text[2]
       /\ memory[s][1].Text[2] < -2

\* C20: an appeal submission that arrives for a review whose status is 10,
\* 30 or 40 fails, and the step in which a submission fails neither adds an
\* appeal nor changes one; a failed submission takes no further step.
C20_AppealNeedsApproved ==
    [][\A s \in Appellants :
          /\ ap[s].pc = "start" /\ ap'[s].pc # "start" =>
                \A i \in 1..Len(reviews) :
                   /\ reviews[i].review_id = ap'[s].rid
                   /\ reviews[i].status \in {10, 30, 40}
                   => ap'[s].pc = "fail" /\ ap'[s].err = "not approved"
          /\ ap'[s].pc = "fail" => appeals' = appeals \/ ap'[s] = ap[s]
          /\ ap[s].pc = "fail" => ap'[s] = ap[s]]_vars

C20_Witness ==
    \E s \in Appellants :
       /\ ap[s].pc = "fail"
       /\ ap[s].err = "not approved"
       /\ GetReviewByReviewID(ap[s].rid).status = StatusHidden
       /\ appeals # <<>>

\* C21: once an appeal is decided (status 20 or 30) no appeal submission
\* changes its reason or content, also when the submission read the appeal
\* list before a concurrent appeal audit committed.
C21_DecidedAppealKeepsText ==
    [][\A s \in Appellants :
          ap[s].pc = "save" /\ ap'[s].pc # "save" =>
             \A i \in 1..Len(appeals) :
                appeals[i].status \in {AppealUpheld, AppealRejected} =>
                   /\ appeals'[i].reason = appeals[i].reason
                   /\ appeals'[i].content = appeals[i].content]_vars

\* No review write or audit is in flight and every task has finished.
Quiescent ==
    /\ \A p \in Creators : cr[p].pc \in {"off", "done", "fail", "reviewed"}
    /\ \A t \in Creators : task[t].pc \in {"off", "done"}
    /\ \A o \in Operators : oper[o].pc \in {"off", "done", "fail"}
    /\ \A q \in AppealAuditors : aa[q].pc \in {"off", "done", "fail"}

\* No external call failed: no task saw its moderation or index call fail,
\* no operator audit saw its moderation call fail, and every finished Create
\* launched its task (its re-read did not fail).
NoCallFailed ==
    /\ \A t \in Creators : ~task[t].failed
    /\ \A p \in Creators : cr[p].pc = "done" => task[p].pc = "done"
    /\ \A o \in Operators : oper[o].err # "moderation"

\* C22: once nothing is in flight, every task has finished and no external
\* call failed, the index document of each review carries the status the
\* review has in the primary store.
C22_IndexAgreesWhenQuiet ==
    Quiescent /\ NoCallFailed =>
       \A i \in 1..Len(reviews) :
          /\ es[reviews[i].review_id] # NoRow
          /\ es[reviews[i].review_id].status = reviews[i].status

\* C23: a Reply received for a review of another store, or for a review
\* whose has_reply is 1, fails; the step in which a Reply fails leaves the
\* review rows and the reply table as they were, and a failed Reply takes no
\* further step.
C23_RefusedReplyChangesNothing ==
    [][\A r \in Repliers :
          /\ rp[r].pc = "start" /\ rp'[r].pc # "start" =>
                \A i \in 1..Len(reviews) :
                   /\ reviews[i].review_id = rp'[r].rid
                   /\ reviews[i].has_reply = 1 \/ reviews[i].store_id # rp'[r].store
                   => /\ rp'[r].pc = "fail"
                      /\ rp'[r].err \in {"replied", "other store"}
          /\ rp'[r].pc = "fail" =>
                (reviews' = reviews /\ replies' = replies) \/ rp'[r] = rp[r]
          /\ rp[r].pc = "fail" => rp'[r] = rp[r]]_vars

C23_Witness ==
    \E r \in Repliers :
       /\ rp[r].pc = "fail"
       /\ rp[r].err = "replied"
       /\ GetReviewByReviewID(rp[r].rid).has_reply = 1
       /\ Len(RepliesTo(rp[r].rid)) = 1

\* C24: an audit, by an operator or by a task, that reads a review whose
\* status is not 10 fails in that step, which leaves every review row as it
\* was and does not go on to the moderation call; a failed operator audit
\* has no completion and takes no further step.
NotPending(rid) ==
    \E i \in 1..Len(reviews) :
       reviews[i].review_id = rid /\ reviews[i].status # StatusPending

C24_OnlyPendingIsAudited ==
    /\ [](\A o \in Operators :
            oper[o].err = "not pending" =>
               oper[o].pc = "fail" /\ oper[o].llm = NoCompletion)
    /\ [][\A o \in Operators :
             /\ oper[o].pc \in {"start", "read"} /\ oper'[o] # oper[o]
                   /\ NotPending(oper'[o].rid)
                => /\ oper'[o].pc = "fail" /\ oper'[o].err = "not pending"
                   /\ reviews' = reviews
             /\ oper[o].pc = "fail" => oper'[o] = oper[o]]_vars
    /\ [][\A t \in Creators :
             task[t].pc = "read" /\ task'[t] # task[t]
                /\ NotPending(task[t].review.review_id)
                => /\ task'[t].pc = "es" /\ ~task'[t].failed
                   /\ reviews' = reviews]_vars

C24_Witness ==
    /\ \E o \in Operators :
          /\ oper[o].pc = "fail" /\ oper[o].err = "not pending"
          /\ oper[o].llm = NoCompletion
          /\ NotPending(oper[o].rid)
    /\ \E t \in Creators : task[t].pc = "done" /\ task[t].snap # NoRow

\* C25: an appeal audit whose decision is neither 20 nor 30 fails with the
\* invalid-decision error in the step that receives it, which leaves every
\* appeal and every review as it was; it takes no further step, and no audit
\* with such a decision reaches the transaction.
C25_InvalidDecisionRefused ==
    /\ [](\A q \in AppealAuditors :
            aa[q].pc \in {"txn", "done"} => aa[q].decision \in {20, 30})
    /\ [][\A q \in AppealAuditors :
             /\ aa[q].pc = "start" /\ aa'[q] # aa[q]
                   /\ aa'[q].decision \in Decisions \ {20, 30}
                => /\ aa'[q].pc = "fail" /\ aa'[q].err = "invalid decision"
                   /\ appeals' = appeals /\ reviews' = reviews
             /\ aa[q].pc = "fail" => aa'[q] = aa[q]]_vars

C25_Witness ==
    \E q \in AppealAuditors :
       /\ aa[q].pc = "fail" /\ aa[q].err = "invalid decision"
       /\ aa[q].decision \notin {20, 30}
       /\ \E i \in 1..Len(appeals) : appeals[i].status = AppealPending

\* C26: a ListMyReviews call that reaches the listing was made by a customer
\* and lists by that principal's own user id, whatever the arguments; no
\* other tool lists by user id; a merchant's or reviewer's ListMyReviews
\* call has failed with FORBIDDEN and invoked nothing.
C26_MyReviewsOwnOnly ==
    \A c \in Callers :
       /\ ag[c].invoked.name = "ListReviewByUserID" =>
             /\ ag[c].tool = "ListMyReviews"
             /\ ag[c].user.Role = "customer"
             /\ ag[c].invoked.id = ag[c].user.UserID
       /\ ag[c].asked.tool = "ListMyReviews" /\ ag[c].invoked # NoCall =>
             ag[c].invoked.name = "ListReviewByUserID"
       /\ ag[c].asked.tool = "ListMyReviews" /\ ag[c].asked.Role \in {"merchant", "reviewer"} =>
             /\ ag[c].pc = "fail" /\ ag[c].err = "FORBIDDEN"
             /\ ag[c].invoked = NoCall /\ ag[c].result = ""

C26_Witness ==
    \E c \in Callers :
       /\ ag[c].tool = "ListMyReviews" /\ ag[c].pc = "done"
       /\ ag[c].user.Role = "customer"
       /\ ag[c].invoked.id = ag[c].user.UserID /\ ag[c].invoked.id > 0

\* C27: a call made by a principal whose role is none of customer, merchant
\* and reviewer has failed with FORBIDDEN whatever its tool name; a call of a
\* principal with one of these roles for a tool name other than GetReview,
\* ListReviewByStoreID and ListMyReviews has failed with TOOL_NOT_FOUND; in
\* both cases no usecase was invoked and no summary was produced.
Received(c) == ag[c].pc \in {"usecase", "done", "fail"}

C27_RoleThenToolGate ==
    \A c \in Callers :
       Received(c) =>
          /\ ag[c].asked.Role \notin {"customer", "merchant", "reviewer"} =>
                /\ ag[c].pc = "fail" /\ ag[c].err = "FORBIDDEN"
                /\ ag[c].invoked = NoCall /\ ag[c].result = ""
          /\ /\ ag[c].asked.Role \in {"customer", "merchant", "reviewer"}
             /\ ag[c].asked.tool \notin {"GetReview", "ListReviewByStoreID", "ListMyReviews"}
             => /\ ag[c].pc = "fail" /\ ag[c].err = "TOOL_NOT_FOUND"
                /\ ag[c].invoked = NoCall /\ ag[c].result = ""

C27_Witness ==
    \E c \in Callers :
       /\ ag[c].pc = "fail" /\ ag[c].err = "FORBIDDEN"
       /\ ag[c].asked.Role = "admin"
       /\ ag[c].asked.tool = "GetReview"

\* C28: a call whose tool executed without error and whose summarization
\* LLM call failed has completed without error and returns the tool result's
\* raw JSON.
C28_SummaryFailureReturnsRaw ==
    \A c \in Callers :
       ag[c].pc \in {"done", "fail"} /\ ag[c].invoked # NoCall
          /\ ~ag[c].usecaseErr /\ ag[c].llmErr
       => ag[c].pc = "done" /\ ag[c].err = "" /\ ag[c].result = "raw"

C28_Witness ==
    \E c \in Callers :
       /\ ag[c].pc = "done" /\ ag[c].invoked.name = "ListReviewByStoreID"
       /\ ~ag[c].usecaseErr /\ ag[c].llmErr
       /\ ag[c].result = "raw"

\* C29: a finished Process call with a non-empty session whose LLM reply
\* had a final answer has left exactly two entries in that session's memory,
\* (user, query) and after it (assistant, final answer), and none in any
\* other session; a Process call whose LLM call failed has left no entry
\* anywhere. Each call's query and answer are its own, so its entries are
\* told apart from those of concurrent calls.
Places(s, msg) == {i \in 1..Len(memory[s]) : memory[s][i] = msg}
EntriesOf(c, s) ==
    {i \in 1..Len(memory[s]) : memory[s][i].Text \in {Query(c), Answer(c)}}

C29_TwoEntriesInOrder ==
    \A c \in Processors :
       /\ pr[c].pc = "done" /\ pr[c].sessionID # NoSession /\ pr[c].FinalAnswer # <<>>
          => LET s == pr[c].sessionID
                 asked == Places(s, message("user", Query(c)))
                 answered == Places(s, message("assistant", pr[c].FinalAnswer))
             IN /\ Cardinality(asked) = 1 /\ Cardinality(answered) = 1
                /\ \A i \in asked, j \in answered : i < j
                /\ Cardinality(EntriesOf(c, s)) = 2
                /\ \A o \in Sessions \ {s} : EntriesOf(c, o) = {}
       /\ pr[c].pc = "fail" => \A s \in Sessions : EntriesOf(c, s) = {}

C29_Witness ==
    \E c \in Processors, d \in Processors :
       /\ c # d
       /\ pr[c].pc = "done" /\ pr[c].sessionID # NoSession /\ pr[c].FinalAnswer # <<>>
       /\ pr[d].pc = "fail" /\ pr[d].sessionID = pr[c].sessionID
       /\ Len(memory[pr[c].sessionID]) = 2

\* C30: has_reply of every review is 0 or 1, and no step (append, audit,
\* appeal audit, Reply) takes a review whose has_reply is 1 to another value.
C30_HasReplyMonotonic ==
    /\ [](\A i \in 1..Len(reviews) : reviews[i].has_reply \in {0, 1})
    /\ [][/\ Len(reviews') >= Len(reviews)
          /\ \A i \in 1..Len(reviews) :
                /\ reviews'[i].review_id = reviews[i].review_id
                /\ reviews[i].has_reply = 1 => reviews'[i].has_reply = 1]_vars

C30_Witness ==
    \E i \in 1..Len(reviews) :
       /\ reviews[i].has_reply = 1
       /\ Len(reviews[i].content) > 1
       /\ reviews[i].status = StatusHidden
       /\ reviews[i].op_remarks # ""
       /\ \E r \in Repliers : rp[r].pc = "fail" /\ rp[r].err = "replied"

\* C31: within one async task the AI audit has returned before the index
\* upsert starts, and the upsert is attempted exactly once, whether the audit
\* succeeded or failed: with the record the audit returned on success, with
\* the record the task was launched with on failure.
AuditSteps == {"read", "write", "ret"}

C31_AuditThenIndexOnce ==
    [][\A t \in Creators :
          LET id == task[t].review.review_id
          IN task'[t] # task[t] =>
                /\ task[t].pc \in AuditSteps =>
                      /\ es' = es
                      /\ task'[t].pc \in AuditSteps \cup {"es"}
                      /\ task'[t].pc = "es" =>
                            IF task[t].pc = "ret"
                            THEN /\ task'[t].audited = GetReviewByReviewID(id)
                                 /\ task'[t].audited.status # StatusPending
                            ELSE task'[t].audited = task[t].review
                /\ task[t].pc = "es" =>
                      /\ task'[t].pc = "done"
                      /\ es' \in {es, [es EXCEPT ![id] = task[t].audited]}
                /\ task[t].pc = "done" => task'[t].pc = "read" /\ es' = es]_vars

\* A task whose audit failed because an operator had audited the review
\* first has indexed the pending record it was launched with.
C31_Witness ==
    \E t \in Creators :
       /\ task[t].pc = "done"
       /\ task[t].audited = task[t].review
       /\ es[task[t].review.review_id] = task[t].review
       /\ task[t].review.status = StatusPending
       /\ GetReviewByReviewID(task[t].review.review_id).status # StatusPending

\* C32: the summarization step runs only after the tool's usecase call
\* succeeded: a call whose usecase failed has returned the error, with no
\* summary and no result, for each of the three tools.
C32_SummaryOnlyAfterSuccess ==
    \A c \in Callers :
       ag[c].usecaseErr =>
          /\ ag[c].pc = "fail"
          /\ ag[c].err = "usecase"
          /\ ag[c].result = ""

\* C33: an appeal submission that found an appeal in state 10 for its review
\* updates that appeal in place: the write adds and removes no appeal, keeps
\* every appeal_id, review, store and status (a status of 10 stays 10), sets
\* the reason and content of the appeal found and leaves every other appeal
\* as it was.
C33_PendingAppealUpdatedInPlace ==
    [][\A s \in Appellants :
          /\ ap[s].pc = "save" => ap[s].existing.status \in {0, AppealPending}
          /\ ap[s].pc = "save" /\ ap'[s].pc = "done" /\ ap[s].existing # NoAppeal =>
                /\ Len(appeals') = Len(appeals)
                /\ \A i \in 1..Len(appeals) :
                      /\ appeals'[i].appeal_id = appeals[i].appeal_id
                      /\ appeals'[i].review_id = appeals[i].review_id
                      /\ appeals'[i].store_id = appeals[i].store_id
                      /\ appeals'[i].status = appeals[i].status
                      /\ appeals'[i].op_user = appeals[i].op_user
                      /\ IF appeals[i].appeal_id = ap[s].existing.appeal_id
                         THEN appeals'[i].reason = s /\ appeals'[i].content = s
                         ELSE appeals'[i] = appeals[i]]_vars

\* A second submission has rewritten the pending appeal of the first: one
\* appeal for the review, under the first submission's appeal_id, pending,
\* with the second submission's text.
C33_Witness ==
    \E s \in Appellants :
       /\ ap[s].pc = "done"
       /\ ap[s].existing # NoAppeal
       /\ Len(AppealsByReview(ap[s].rid)) = 1
       /\ LET a == Head(AppealsByReview(ap[s].rid))
          IN /\ a.appeal_id = ap[s].existing.appeal_id
             /\ a.appeal_id # GenID(s)
             /\ a.status = AppealPending
             /\ a.reason = s /\ a.content = s

\* C34: an append changes only the content and the scores of a review, so
\* the status of a review that is not pending is left as it is; and the task
\* an append launches with a record that is not pending changes no review:
\* its audit fails the pending check and never reaches the moderation call.
C34_AppendKeepsStatus ==
    [][\A p \in Creators :
          /\ cr[p].pc = "append" /\ cr'[p].pc = "reread" =>
                /\ Len(reviews') = Len(reviews)
                /\ \A i \in 1..Len(reviews) :
                      reviews'[i] = [reviews[i] EXCEPT !.content = reviews'[i].content,
                                                       !.score = reviews'[i].score]
          /\ task'[p] # task[p] /\ task'[p].review.status # StatusPending =>
                /\ reviews' = reviews
                /\ task'[p].pc \notin {"write", "ret"}]_vars

\* An approved review has been appended to and the task of the append has
\* run to its end: the review is still approved, and the index holds the
\* appended, approved record.
C34_Witness ==
    \E p \in Creators, i \in 1..Len(reviews) :
       /\ cr[p].pc = "done"
       /\ cr[p].existing.status = StatusApproved
       /\ task[p].pc = "done"
       /\ task[p].review.review_id = reviews[i].review_id
       /\ reviews[i].status = StatusApproved
       /\ Len(reviews[i].content) > 1
       /\ es[reviews[i].review_id].status = StatusApproved
       /\ es[reviews[i].review_id].content = reviews[i].content

\* The hits in the bytes a read returned.
Hits(data) == data[2]

\* C35: a paged read by a target (store, user or status) and an id returns
\* only reviews whose field for that target equals the id, also when a read
\* of another target with the same id, offset and limit is cached or in flight.
C35_ReadMatchesTarget ==
    \A c \in Readers :
       rd[c].pc = "done" /\ rd[c].res.err = "" =>
          \A i \in 1..Len(Hits(rd[c].res.data)) :
             Hits(rd[c].res.data)[i][FieldName(rd[c].target)] = KeyID(rd[c].key)

\* The content tokens of a stored content.
Fragments(content) == {content[i] : i \in 1..Len(content)}

\* C36: no append is lost: the stored content of a review contains the
\* content of every submission on its order that returned success, in every
\* interleaving of the submissions.
C36_NoAppendLost ==
    \A p \in Creators :
       cr[p].pc = "done" =>
          \A i \in 1..Len(reviews) :
             reviews[i].order_id = cr[p].order => p \in Fragments(reviews[i].content)

\* C37: whenever an AI audit sets a review to status 20, the content it
\* submitted to moderation (the content of the row it read) is the stored
\* content of the review at the moment the status update is applied.
C37_ApprovedContentWasModerated ==
    [][/\ \A t \in Creators :
             task[t].pc = "write" /\ task'[t].pc = "ret" =>
                \A i \in 1..Len(reviews) :
                   /\ reviews[i].review_id = task[t].review.review_id
                   /\ reviews'[i].status = StatusApproved
                   => reviews[i].content = task[t].snap.content
       /\ \A o \in Operators :
             oper[o].pc = "write" /\ oper'[o].pc = "done" =>
                \A i \in 1..Len(reviews) :
                   /\ reviews[i].review_id = oper[o].rid
                   /\ reviews'[i].status = StatusApproved
                   => reviews[i].content = oper[o].snap.content]_vars

\* C38: with the tasks scheduled fairly, the moderation client returning a
\* verdict and the store accepting the update, every newly created review
\* eventually leaves status 10 for 20 or 30, with no operator acting.
C38_CreatedReviewIsAudited ==
    \A id \in Creators :
       (GetReviewByReviewID(id).status = StatusPending)
          ~> (GetReviewByReviewID(id).status \in {StatusApproved, StatusRejected})

\* A created review has been approved by the AI audit of its task while no
\* operator request was ever received.
C38_Witness ==
    /\ \A o \in Operators : oper[o].pc = "off"
    /\ \E t \in Creators :
          /\ task[t].pc = "done"
          /\ GetReviewByReviewID(task[t].review.review_id).status = StatusApproved
          /\ GetReviewByReviewID(task[t].review.review_id).update_by = "Gemini"
          /\ es[task[t].review.review_id].status = StatusApproved

\* C39: a call_tool whose context carries no authenticated principal
\* (userFromContext returns an error and no user) returns an error: it never
\* reads the role of the absent principal, and no tool is executed.
C39_NoPrincipalIsRefused ==
    \A c \in Callers :
       /\ ag[c].pc # "panic"
       /\ ag[c].err # "nil dereference"
       /\ ag[c].asked.Role = "" /\ ag[c].pc \notin {"off", "start"} =>
             ag[c].pc = "fail" /\ ag[c].invoked = NoCall

\* The user entry u and the assistant entry a were written by one Process
\* call: a call of this run, or an earlier call (whose two entries carry
\* consecutive negative numbers).
SameCall(u, a) ==
    /\ u.Role = "user"
    /\ a.Role = "assistant"
    /\ \/ \E c \in Processors : u.Text = Query(c) /\ a.Text = Answer(c)
       \/ a.Text[2] < 0 /\ u.Text[2] = a.Text[2] + 1

\* C40: in every session's memory each assistant entry that has an entry
\* before it is immediately preceded by the user entry of the same Process
\* call, in every interleaving of the Process calls on the session.
C40_AssistantFollowsItsUser ==
    \A s \in Sessions :
       \A i \in 2..Len(memory[s]) :
          memory[s][i].Role = "assistant" => SameCall(memory[s][i - 1], memory[s][i])

====
